---- MODULE Spec2Model ----
(***************************************************************************)
(* CryptoTrackerBackend: the four HTTP handlers of the express server      *)
(* (GET /api/coins, POST /api/history, GET /api/history/:coinId,           *)
(* GET /api/health), the History collection they share, the CoinGecko      *)
(* upstream and the mongoose connection state.                             *)
(*                                                                         *)
(* A handler runs without interruption between two awaits, so every action *)
(* below is one such stretch of a handler.  A POST /api/history request    *)
(* awaits the upstream once and then the store once per coin, and other    *)
(* requests interleave at those awaits.  GET handlers await once and touch *)
(* no state of the server, so each is one action taken at the moment its   *)
(* awaited call settles.                                                   *)
(***************************************************************************)
EXTENDS Integers, Sequences, FiniteSets, TLC

\* ------------------------------------------------------------------ bounds
MaxPosts == 2        \* POST /api/history requests in one behaviour
MaxTime  == 2        \* values of the wall clock

\* --------------------------------------------------------------- constants
DefaultLimit == <<"2", "4">>     \* const { limit = 24 } = req.query, as parseInt reads it
Connected    == 1                \* mongoose.connection.readyState === 1

\* ---------------------------------------------------------------- upstream
\* The coins CoinGecko ranks first (order=market_cap_desc), in rank order.
Ranking == <<"bitcoin", "ethereum">>

CoinIds == { Ranking[i] : i \in DOMAIN Ranking }

CoinName(id) == IF id = "bitcoin" THEN "Bitcoin" ELSE "Ethereum"

CoinSymbol(id) == IF id = "bitcoin" THEN "btc" ELSE "eth"

\* The market moves with time: what the upstream quotes for a coin at instant t.
PriceAt(id, t) == (IF id = "bitcoin" THEN 65000 ELSE 3000) + 10 * t

MarketCapAt(id, t) == 20 * PriceAt(id, t)

ChangeAt(id, t) == IF id = "bitcoin" THEN t - 2 ELSE 2 - t

\* One record of response.data: the seven fields the handlers read and one
\* of the many they do not.
MarketRecord(id, t) ==
    [id |-> id, name |-> CoinName(id), symbol |-> CoinSymbol(id),
     current_price |-> PriceAt(id, t), market_cap |-> MarketCapAt(id, t),
     price_change_percentage_24h |-> ChangeAt(id, t),
     last_updated |-> t, image |-> "png"]

\* response.data of axios.get(COINGECKO_URL) at instant t: the first n coins
\* of the ranking, for any n the page can hold.
UpstreamPages(t) ==
    { [i \in 1..n |-> MarketRecord(Ranking[i], t)] : n \in 0..Len(Ranking) }

UpstreamMessages == {"Network Error", "Request failed with status code 429"}

StoreMessages == {"Operation buffering timed out"}

\* ------------------------------------------------------------------- state
VARIABLES
    store,        \* the History collection, in insertion order
    post,         \* post[r]: the POST /api/history request r
    now,          \* the wall clock read by new Date()
    last          \* the response sent by the last step, if it sent one

vars == <<store, post, now, last>>

Posts == 1..MaxPosts

NoResponse == [op |-> "none"]

\* What a handler's awaited call threw, if it threw.
Nothing == [by |-> "none", message |-> ""]

Thrown(by, msg) == [by |-> by, message |-> msg]

\* A request not yet received.  index is the position of the for...of loop in
\* coins; thrown and res record what the request met and what it answered.
IdlePost ==
    [pc |-> "idle", coins |-> <<>>, timestamp |-> 0, index |-> 0, savedRecords |-> <<>>,
     thrown |-> Nothing, res |-> NoResponse]

Init ==
    /\ store = <<>>
    /\ post = [r \in Posts |-> IdlePost]
    /\ now = 1
    /\ last = NoResponse

\* ------------------------------------------------------------- environment
\* Time passes.
Tick ==
    /\ now < MaxTime
    /\ now' = now + 1
    /\ last' = NoResponse
    /\ UNCHANGED <<store, post>>

\* -------------------------------------------------------- GET /api/coins
\* FormatCoin with the price taken from the wrong field.
FormatCoinSwapped(coin) ==
    [id |-> coin.id, name |-> coin.name, symbol |-> coin.symbol,
     current_price |-> coin.market_cap, market_cap |-> coin.market_cap,
     price_change_percentage_24h |-> coin.price_change_percentage_24h,
     last_updated |-> coin.last_updated]

FormatCoin(coin) ==
    [id |-> coin.id, name |-> coin.name, symbol |-> coin.symbol,
     current_price |-> coin.current_price, market_cap |-> coin.market_cap,
     price_change_percentage_24h |-> coin.price_change_percentage_24h,
     last_updated |-> coin.last_updated]

FormattedCoins(coins) == [i \in DOMAIN coins |-> FormatCoin(coins[i])]

GetCoinsOk ==
    \E coins \in UpstreamPages(now) :
        /\ last' = [op |-> "GetCoins", status |-> 200, upstream |-> coins,
                    body |-> FormattedCoins(coins)]
        /\ UNCHANGED <<store, post, now>>

GetCoinsFail ==
    \E msg \in UpstreamMessages :
        /\ last' = [op |-> "GetCoins", status |-> 500, thrown |-> msg,
                    body |-> [error |-> "Failed to fetch coins data from CoinGecko",
                              details |-> msg]]
        /\ UNCHANGED <<store, post, now>>

\* ------------------------------------------------------- POST /api/history
\* The document History.create builds from one upstream record.  _id is the
\* identity MongoDB gives the document; req is the request that wrote it, kept
\* by the model to tell the requests' records apart.
HistoryDocument(coin, timestamp, id, r) ==
    [_id |-> id, coinId |-> coin.id, name |-> coin.name, symbol |-> coin.symbol,
     price |-> coin.current_price, marketCap |-> coin.market_cap,
     change24h |-> coin.price_change_percentage_24h, timestamp |-> timestamp,
     req |-> r]

\* Created as an upsert by coin: the coin's stored document is replaced.
Upserted(docs, doc) ==
    IF \E i \in DOMAIN docs : docs[i].coinId = doc.coinId
    THEN LET i == CHOOSE i \in DOMAIN docs : docs[i].coinId = doc.coinId
         IN  [docs EXCEPT ![i] = doc]
    ELSE Append(docs, doc)

\* The collection after a create that resolved.
Created(docs, doc) == Append(docs, doc)

\* CurrentCoin with the loop stuck at the first coin.
FirstCoin(p) == p.coins[1]

\* for (const coin of coins): the coin the loop is at.
CurrentCoin(p) == p.coins[p.index]

PostSuccess(savedRecords, timestamp) ==
    [success |-> TRUE, message |-> "Snapshot stored successfully",
     recordsCount |-> Len(savedRecords), timestamp |-> timestamp]

\* PostFailure with the underlying message withheld.
PostFailureOpaque(msg) ==
    [success |-> FALSE, error |-> "Failed to store history snapshot",
     details |-> "Internal Server Error"]

PostFailure(msg) ==
    [success |-> FALSE, error |-> "Failed to store history snapshot", details |-> msg]

PostResponse(r, status, body) ==
    [op |-> "PostHistory", req |-> r, status |-> status, body |-> body]

\* The request arrives and the handler calls the upstream.  (Requests are
\* numbered in the order they arrive.)
PostReceive(r) ==
    /\ post[r].pc = "idle"
    /\ r > 1 => post[r - 1].pc # "idle"
    /\ post' = [post EXCEPT ![r].pc = "fetching"]
    /\ last' = NoResponse
    /\ UNCHANGED <<store, now>>

\* axios.get resolves: the handler takes the coins and the timestamp and
\* enters the loop; with no coin to store it answers at once.
PostFetchOk(r) ==
    /\ post[r].pc = "fetching"
    /\ \E coins \in UpstreamPages(now) :
        LET timestamp == now
            res == PostResponse(r, 201, PostSuccess(<<>>, timestamp))
        IN  IF coins = <<>>
            THEN /\ post' = [post EXCEPT ![r].pc = "done", ![r].coins = coins,
                                         ![r].timestamp = timestamp, ![r].res = res]
                 /\ last' = res
            ELSE /\ post' = [post EXCEPT ![r].pc = "writing", ![r].coins = coins,
                                         ![r].timestamp = timestamp, ![r].index = 1]
                 /\ last' = NoResponse
    /\ UNCHANGED <<store, now>>

\* axios.get rejects: the catch block answers.
PostFetchFail(r) ==
    /\ post[r].pc = "fetching"
    /\ \E msg \in UpstreamMessages :
        LET res == PostResponse(r, 500, PostFailure(msg))
        IN  /\ post' = [post EXCEPT ![r].pc = "done", ![r].thrown = Thrown("upstream", msg),
                                    ![r].res = res]
            /\ last' = res
    /\ UNCHANGED <<store, now>>

\* History.create resolves for the current coin: the document is stored and
\* pushed to savedRecords; after the last coin the handler answers 201.
PostWriteOk(r) ==
    /\ post[r].pc = "writing"
    /\ LET p == post[r]
           doc == HistoryDocument(CurrentCoin(p), p.timestamp, Len(store) + 1, r)
           saved == Append(p.savedRecords, doc._id)
           res == PostResponse(r, 201, PostSuccess(saved, p.timestamp))
       IN  /\ store' = Created(store, doc)
           /\ IF p.index = Len(p.coins)
              THEN /\ post' = [post EXCEPT ![r].pc = "done", ![r].savedRecords = saved,
                                           ![r].res = res]
                   /\ last' = res
              ELSE /\ post' = [post EXCEPT ![r].index = p.index + 1,
                                           ![r].savedRecords = saved]
                   /\ last' = NoResponse
    /\ UNCHANGED now

\* PostWriteFail with the rejection caught inside the loop: the coin is
\* skipped and the loop goes on.
PostWriteFailContinue(r) ==
    /\ post[r].pc = "writing"
    /\ \E msg \in StoreMessages :
        LET p == post[r]
            res == PostResponse(r, 201, PostSuccess(p.savedRecords, p.timestamp))
        IN  IF p.index = Len(p.coins)
            THEN /\ post' = [post EXCEPT ![r].pc = "done", ![r].res = res]
                 /\ last' = res
            ELSE /\ post' = [post EXCEPT ![r].index = p.index + 1]
                 /\ last' = NoResponse
    /\ UNCHANGED <<store, now>>

\* History.create rejects for the current coin: the loop is left, nothing is
\* undone, the catch block answers.
PostWriteFail(r) ==
    /\ post[r].pc = "writing"
    /\ \E msg \in StoreMessages :
        LET res == PostResponse(r, 500, PostFailure(msg))
        IN  /\ post' = [post EXCEPT ![r].pc = "done", ![r].thrown = Thrown("store", msg),
                                    ![r].res = res]
            /\ last' = res
    /\ UNCHANGED <<store, now>>

\* ------------------------------------------------ GET /api/history/:coinId
\* req.query.limit: not given, or the text given.
NoLimit == [given |-> FALSE, text |-> <<>>]

LimitTexts == { <<"1">>, <<"2">>, <<"0">>, <<"-", "1">>, <<"-", "2">>, <<"a", "b", "c">> }

LimitQueries == {NoLimit} \cup { [given |-> TRUE, text |-> t] : t \in LimitTexts }

\* const { limit = 24 } = req.query, as the text parseInt converts it to.
LimitText(q) == IF q.given THEN q.text ELSE DefaultLimit

\* The path parameter: a listed coin or any other text.
QueryIds == CoinIds \cup {"doesnotexist"}

NaN == [nan |-> TRUE, n |-> 0]

Number(n) == [nan |-> FALSE, n |-> n]

IsDigit(c) == c \in {"0", "1", "2", "3", "4", "5", "6", "7", "8", "9"}

DigitValue(c) ==
    CASE c = "0" -> 0 [] c = "1" -> 1 [] c = "2" -> 2 [] c = "3" -> 3 [] c = "4" -> 4
      [] c = "5" -> 5 [] c = "6" -> 6 [] c = "7" -> 7 [] c = "8" -> 8 [] OTHER -> 9

RECURSIVE SkipSpaces(_)
SkipSpaces(s) == IF s # <<>> /\ Head(s) = " " THEN SkipSpaces(Tail(s)) ELSE s

RECURSIVE ReadDigits(_, _)
ReadDigits(s, acc) ==
    IF s # <<>> /\ IsDigit(Head(s))
    THEN ReadDigits(Tail(s), 10 * acc + DigitValue(Head(s)))
    ELSE acc

\* parseInt: leading blanks, a sign, then the longest run of digits; NaN
\* when there is no digit.
ParseInt(text) ==
    LET s == SkipSpaces(text)
        signed == s # <<>> /\ Head(s) \in {"-", "+"}
        negative == s # <<>> /\ Head(s) = "-"
        digits == IF signed THEN Tail(s) ELSE s
    IN  IF digits = <<>> \/ ~IsDigit(Head(digits))
        THEN NaN
        ELSE Number((IF negative THEN -1 ELSE 1) * ReadDigits(digits, 0))

\* History.find({ coinId }): the positions of the matching documents.
Matching(docs, coinId) == { i \in DOMAIN docs : docs[i].coinId = coinId }

\* SortedDescending with the sort direction inverted.
SortedAscending(docs, S) ==
    { s \in [1..Cardinality(S) -> S] :
        /\ \A i, j \in DOMAIN s : i # j => s[i] # s[j]
        /\ \A i, j \in DOMAIN s : i < j => docs[s[i]].timestamp <= docs[s[j]].timestamp }

\* .sort({ timestamp: -1 }): every order of the matching documents with no
\* timestamp before a smaller one (the store does not say which of two
\* documents with equal timestamps comes first).
SortedDescending(docs, S) ==
    { s \in [1..Cardinality(S) -> S] :
        /\ \A i, j \in DOMAIN s : i # j => s[i] # s[j]
        /\ \A i, j \in DOMAIN s : i < j => docs[s[i]].timestamp >= docs[s[j]].timestamp }

\* Limited with the limit dropped.
Unlimited(s, limit) == s

\* .limit(n) as the store applies it: 0 is no limit, a negative n limits to
\* -n, and a NaN the store does not reject limits nothing.
Limited(s, limit) ==
    LET n == IF limit.n < 0 THEN -limit.n ELSE limit.n
    IN  IF limit.nan \/ n = 0 \/ n >= Len(s) THEN s ELSE SubSeq(s, 1, n)

\* .select("price timestamp change24h"): the three fields and the _id.
Selected(doc) ==
    [_id |-> doc._id, price |-> doc.price, timestamp |-> doc.timestamp,
     change24h |-> doc.change24h]

\* What the query can resolve to.
FindResults(docs, coinId, limit) ==
    { [i \in DOMAIN Limited(s, limit) |-> Selected(docs[Limited(s, limit)[i]])] :
        s \in SortedDescending(docs, Matching(docs, coinId)) }

\* Reversed with the reversal left out.
NotReversed(history) == history

\* history.reverse()
Reversed(history) == [i \in DOMAIN history |-> history[Len(history) + 1 - i]]

\* NoData as a test of the array itself, which is never falsy.
NoDataIfFalsy(history) == Len(history) < 0

\* if (history.length === 0)
NoData(history) == Len(history) = 0

NotFound(coinId) ==
    [error |-> "No historical data found",
     message |-> <<"No history found for ", coinId, ". Run POST /api/history first.">>,
     coinId |-> coinId]

Found(coinId, reversedHistory) ==
    [coinId |-> coinId, recordsCount |-> Len(reversedHistory), data |-> reversedHistory]

\* The POST /api/history request whose 201 was the step just before this
\* one (0 when the step before was anything else).
JustStored == IF last.op = "PostHistory" /\ last.status = 201 THEN last.req ELSE 0

\* What the model keeps of a GET /api/history/:coinId request with its response.
HistoryResponse(coinId, limit, status, body) ==
    [op |-> "GetHistory", coinId |-> coinId, limit |-> limit, follows |-> JustStored,
     status |-> status, body |-> body]

\* The query resolves: 404 for no document, 200 with the documents oldest
\* first otherwise.
GetHistoryOk ==
    \E coinId \in QueryIds, q \in LimitQueries :
        LET limit == ParseInt(LimitText(q))
        IN  /\ \E history \in FindResults(store, coinId, limit) :
                last' = IF NoData(history)
                        THEN HistoryResponse(coinId, limit, 404, NotFound(coinId))
                        ELSE HistoryResponse(coinId, limit, 200,
                                             Found(coinId, Reversed(history)))
            /\ UNCHANGED <<store, post, now>>

\* The query rejects (the store fails, or it refuses the limit it was given).
GetHistoryFail ==
    \E coinId \in QueryIds, q \in LimitQueries, msg \in StoreMessages :
        /\ last' = HistoryResponse(coinId, ParseInt(LimitText(q)), 500,
                                   [error |-> "Failed to fetch historical data",
                                    details |-> msg])
        /\ UNCHANGED <<store, post, now>>

\* --------------------------------------------------------- GET /api/health
\* mongoose.connection.readyState: disconnected, connected, connecting,
\* disconnecting, uninitialized.
ReadyStates == {0, 1, 2, 3, 99}

\* Database with every state but disconnected taken as connected.
DatabaseUnlessDisconnected(readyState) ==
    IF readyState # 0 THEN "Connected" ELSE "Disconnected"

Database(readyState) == IF readyState = Connected THEN "Connected" ELSE "Disconnected"

HealthBody(readyState, timestamp) ==
    [status |-> "OK", timestamp |-> timestamp, database |-> Database(readyState),
     endpoints |-> {"GET /api/coins", "POST /api/history", "GET /api/history/:coinId"}]

\* The handler reads the connection state, whatever it is at that moment.
Health ==
    \E readyState \in ReadyStates :
        /\ last' = [op |-> "Health", readyState |-> readyState, status |-> 200,
                    body |-> HealthBody(readyState, now)]
        /\ UNCHANGED <<store, post, now>>

Next ==
    \/ Tick
    \/ GetCoinsOk
    \/ GetCoinsFail
    \/ \E r \in Posts : PostReceive(r)
    \/ \E r \in Posts : PostFetchOk(r)
    \/ \E r \in Posts : PostFetchFail(r)
    \/ \E r \in Posts : PostWriteOk(r)
    \/ \E r \in Posts : PostWriteFail(r)
    \/ GetHistoryOk
    \/ GetHistoryFail
    \/ Health

Spec == Init /\ [][Next]_vars

\* The write path alone: POST /api/history requests and the clock.
NextWrites ==
    \/ Tick
    \/ \E r \in Posts : PostReceive(r)
    \/ \E r \in Posts : PostFetchOk(r)
    \/ \E r \in Posts : PostFetchFail(r)
    \/ \E r \in Posts : PostWriteOk(r)
    \/ \E r \in Posts : PostWriteFail(r)

SpecWrites == Init /\ [][NextWrites]_vars

\* The read handlers alone, on the collection as it is before any snapshot.
NextReads ==
    \/ Tick
    \/ GetCoinsOk
    \/ GetCoinsFail
    \/ GetHistoryOk
    \/ GetHistoryFail
    \/ Health

SpecReads == Init /\ [][NextReads]_vars

\* ------------------------------------------------------------- properties
IsHistoryResponse == last.op = "GetHistory"

\* The documents request r has written, in insertion order.
Mine(r) == SelectSeq(store, LAMBDA d : d.req = r)

InBatch(r, coinId) == \E k \in DOMAIN post[r].coins : post[r].coins[k].id = coinId

\* current_price of coinId in the page request r fetched.
CapturedPrice(r, coinId) ==
    LET k == CHOOSE k \in DOMAIN post[r].coins : post[r].coins[k].id = coinId
    IN  post[r].coins[k].current_price

\* C1, as claimed: whenever the store holds no record of the coin asked for,
\* GET /api/history/:coinId answers 404 with that coinId, whatever the limit.
C1_Original ==
    (IsHistoryResponse /\ Matching(store, last.coinId) = {})
        => (last.status = 404 /\ last.body.coinId = last.coinId)

\* C1, amended: when the store holds no record of the coin asked for, a query
\* that resolves is answered 404 with that coinId, whatever the limit, and a
\* query that rejects is answered 500; no 200 carries an empty data array.
C1_NotFoundWhenResolved ==
    IsHistoryResponse =>
        /\ Matching(store, last.coinId) = {}
              => \/ last.status = 404 /\ last.body.coinId = last.coinId
                 \/ last.status = 500
        /\ last.status = 200 => last.body.data # <<>>

\* C1: a 404 for a coin without records and a limit that is not a number,
\* while another coin has records.
C1_Witness ==
    /\ IsHistoryResponse
    /\ last.status = 404
    /\ last.limit.nan
    /\ Matching(store, last.coinId) = {}
    /\ store # <<>>

\* C2: every 200 of GET /api/history/:coinId lists its data oldest first:
\* no item has a timestamp greater than the next item's.
C2_OldestFirst ==
    (IsHistoryResponse /\ last.status = 200) =>
        \A i \in 1..(Len(last.body.data) - 1) :
            last.body.data[i].timestamp <= last.body.data[i + 1].timestamp

\* C2: a 200 whose first item is older than the second although it was
\* inserted after it.
C2_Witness ==
    /\ IsHistoryResponse
    /\ last.status = 200
    /\ Len(last.body.data) >= 2
    /\ last.body.data[1].timestamp < last.body.data[2].timestamp
    /\ last.body.data[1]._id > last.body.data[2]._id

\* C3, as claimed: in every 200 of GET /api/history/:coinId, recordsCount is
\* the length of data and at most the limit asked for, zero and negative
\* limits included.
C3_Original ==
    (IsHistoryResponse /\ last.status = 200 /\ ~last.limit.nan) =>
        /\ last.body.recordsCount = Len(last.body.data)
        /\ last.body.recordsCount <= last.limit.n

\* C3, amended: in every 200, recordsCount is the length of data; it is at
\* most the limit when the limit is 1 or more (24 when none is given) and at
\* most the limit's absolute value when the limit is negative.
C3_CountWithinLimit ==
    (IsHistoryResponse /\ last.status = 200) =>
        /\ last.body.recordsCount = Len(last.body.data)
        /\ (~last.limit.nan /\ last.limit.n >= 1)
              => last.body.recordsCount <= last.limit.n
        /\ (~last.limit.nan /\ last.limit.n < 0)
              => last.body.recordsCount <= -last.limit.n

\* C3: a 200 for limit 1 on a coin with more than one record.
C3_Witness ==
    /\ IsHistoryResponse
    /\ last.status = 200
    /\ ~last.limit.nan
    /\ last.limit.n = 1
    /\ Cardinality(Matching(store, last.coinId)) >= 2
    /\ last.body.recordsCount = 1

\* A GET /api/history/:coinId that resolved, right after the 201 of a POST
\* whose page held the coin, with a limit of 1 or more.
ReadRightAfterStore ==
    /\ IsHistoryResponse
    /\ last.follows # 0
    /\ last.status # 500
    /\ ~last.limit.nan
    /\ last.limit.n >= 1
    /\ InBatch(last.follows, last.coinId)

\* The records of the coin, other than the request's own, that are not older
\* than the request's timestamp.
NotOlder(r, coinId) ==
    { i \in Matching(store, coinId) :
        store[i].req # r /\ store[i].timestamp >= post[r].timestamp }

\* C4, as claimed: a GET /api/history/:coinId right after a POST /api/history,
\* for a coin of the POST's page and a limit of 1 or more, returns a record
\* with the price the POST captured, whatever else the store holds.
C4_Original ==
    ReadRightAfterStore =>
        /\ last.status = 200
        /\ \E i \in DOMAIN last.body.data :
              last.body.data[i].price = CapturedPrice(last.follows, last.coinId)

\* C4, amended: such a GET, when its query resolves, returns the record the
\* POST wrote for the coin, with the price captured, provided fewer than
\* limit other records of the coin carry a timestamp equal to or later than
\* the POST's.
C4_StoredThenRead ==
    (ReadRightAfterStore
        /\ Cardinality(NotOlder(last.follows, last.coinId)) < last.limit.n) =>
        /\ last.status = 200
        /\ \E i \in DOMAIN last.body.data :
              /\ last.body.data[i].price = CapturedPrice(last.follows, last.coinId)
              /\ \E k \in DOMAIN post[last.follows].savedRecords :
                    post[last.follows].savedRecords[k] = last.body.data[i]._id

\* C4: a GET with limit 1 right after a POST, on a coin that had a record
\* already, returning the POST's record.
C4_Witness ==
    /\ ReadRightAfterStore
    /\ last.limit.n = 1
    /\ Cardinality(Matching(store, last.coinId)) >= 2
    /\ NotOlder(last.follows, last.coinId) = {}
    /\ last.body.data[1].price = CapturedPrice(last.follows, last.coinId)

\* C5: a POST /api/history that answered 201 has written exactly one record
\* for each coin of its page, all with the timestamp it answered, and its
\* recordsCount is that number of records, whatever other requests did
\* meanwhile.
C5_WholeBatchWritten ==
    \A r \in Posts :
        (post[r].pc = "done" /\ post[r].res.status = 201) =>
            LET p == post[r]
                mine == Mine(r)
            IN  /\ Len(mine) = Len(p.coins)
                /\ \A k \in DOMAIN p.coins :
                      Cardinality({ i \in DOMAIN mine : mine[i].coinId = p.coins[k].id }) = 1
                /\ \A i \in DOMAIN mine : mine[i].timestamp = p.res.body.timestamp
                /\ p.res.body.recordsCount = Len(mine)

\* C5: two POSTs of two coins each, both answered 201, whose writes
\* interleaved.
C5_Witness ==
    /\ \A r \in {1, 2} :
          post[r].pc = "done" /\ post[r].res.status = 201 /\ Len(post[r].coins) = 2
    /\ Len(store) = 4
    /\ store[1].req # store[2].req

\* C6: the collection only grows at its end, and only by a create of a POST
\* /api/history request: no step changes or removes a stored record, and the
\* steps of GET /api/coins, GET /api/history/:coinId and GET /api/health
\* leave the collection as it is.
C6_AppendOnly ==
    [][ /\ Len(store') >= Len(store)
        /\ SubSeq(store', 1, Len(store)) = store
        /\ store' # store => \E r \in Posts : PostWriteOk(r)
        /\ last'.op \in {"GetCoins", "GetHistory", "Health"} => store' = store ]_vars

\* C6: a read that failed while the collection held two records of one coin.
C6_Witness ==
    /\ Len(store) >= 3
    /\ \E i, j \in DOMAIN store : store[i].coinId = store[j].coinId /\ i # j
    /\ IsHistoryResponse
    /\ last.status = 500

\* C7: a POST /api/history whose upstream call failed has answered 500 with
\* success false and the upstream's message as details, and no record of it
\* is in the store.
C7_UpstreamFailureWritesNothing ==
    \A r \in Posts :
        post[r].thrown.by = "upstream" =>
            /\ post[r].pc = "done"
            /\ post[r].res.status = 500
            /\ post[r].res.body.success = FALSE
            /\ post[r].res.body.details = post[r].thrown.message
            /\ Mine(r) = <<>>
            /\ post[r].savedRecords = <<>>

\* C7: a POST whose upstream call failed while another POST has stored records.
C7_Witness ==
    /\ \E r \in Posts : post[r].thrown.by = "upstream"
    /\ store # <<>>

\* C8: a 200 of GET /api/coins lists as many items as the upstream page, and
\* the item at each position has the seven named fields of the upstream
\* record at that position, and only those.
C8_CoinsMappedInOrder ==
    (last.op = "GetCoins" /\ last.status = 200) =>
        /\ Len(last.body) = Len(last.upstream)
        /\ \A i \in DOMAIN last.upstream :
              LET item == last.body[i]
                  coin == last.upstream[i]
              IN  /\ item.id = coin.id
                  /\ item.name = coin.name
                  /\ item.symbol = coin.symbol
                  /\ item.current_price = coin.current_price
                  /\ item.market_cap = coin.market_cap
                  /\ item.price_change_percentage_24h = coin.price_change_percentage_24h
                  /\ item.last_updated = coin.last_updated
                  /\ DOMAIN item = {"id", "name", "symbol", "current_price", "market_cap",
                                    "price_change_percentage_24h", "last_updated"}

\* C8: a 200 of GET /api/coins for a page of two coins.
C8_Witness ==
    /\ last.op = "GetCoins"
    /\ last.status = 200
    /\ Len(last.upstream) = 2
    /\ last.body[2].id = "ethereum"

\* C9: GET /api/health can always answer, and answers 200 with status "OK"
\* and database "Connected" when the connection state is connected,
\* "Disconnected" in every other connection state.
C9_HealthAlwaysOk ==
    /\ ENABLED Health
    /\ last.op = "Health" =>
          /\ last.status = 200
          /\ last.body.status = "OK"
          /\ last.readyState = 1 => last.body.database = "Connected"
          /\ last.readyState # 1 => last.body.database = "Disconnected"

\* C9: a health check answered while the connection was still connecting.
C9_Witness ==
    /\ last.op = "Health"
    /\ last.readyState = 2
    /\ last.body.database = "Disconnected"

\* C10: the records a POST /api/history has written are those of the first
\* coins of its page, in page order; a POST whose create failed at coin k
\* has the records of the k-1 coins before it in the store and none of coin
\* k or after, and it answered 500 with success false and no recordsCount.
C10_PrefixWritten ==
    \A r \in Posts :
        LET p == post[r]
            mine == Mine(r)
        IN  /\ Len(mine) <= Len(p.coins)
            /\ \A k \in DOMAIN mine :
                  mine[k].coinId = p.coins[k].id /\ mine[k]._id = p.savedRecords[k]
            /\ p.thrown.by = "store" =>
                  /\ p.pc = "done"
                  /\ Len(mine) = p.index - 1
                  /\ p.index <= Len(p.coins)
                  /\ p.res.status = 500
                  /\ p.res.body.success = FALSE
                  /\ "recordsCount" \notin DOMAIN p.res.body

\* C10: a POST of two coins whose second create failed, the first coin's
\* record still stored.
C10_Witness ==
    \E r \in Posts :
        /\ post[r].thrown.by = "store"
        /\ post[r].index = 2
        /\ Len(Mine(r)) = 1
        /\ Mine(r)[1].coinId = post[r].coins[1].id
====
